---- MODULE Spec2Model ----
(***************************************************************************)
(* The LLM inference hardware calculators of this repository.              *)
(*                                                                         *)
(* Three programs are modelled: the Calculator component mounted by        *)
(* app/page.tsx (with the ResultsDisplay, QuantizationComparison and       *)
(* InferenceSpeedEstimator views it renders), the stand-alone App of       *)
(* src/App.tsx, and the second App component the same file holds, which    *)
(* has one quantization for weights and cache (state app2).  A behaviour   *)
(* is a run of one of them: page says which one is mounted.                *)
(*                                                                         *)
(* Numbers.  The code computes in IEEE doubles; the model computes the     *)
(* same expressions in exact rational arithmetic over scaled integers:     *)
(*   - Calculator model sizes are counted in tenths of a billion           *)
(*     parameters (the slider step), byte counts in blocks of 128 bytes    *)
(*     (every byte count the code forms is a multiple of 128), held as a   *)
(*     pair [h, l] = h GiB + l blocks so that no intermediate exceeds the  *)
(*     range of the checker's integers;                                    *)
(*   - App quantities are fractions with the fixed denominators named      *)
(*     below (AppVramDen, AppDiskDen).                                     *)
(***************************************************************************)
EXTENDS Integers, Sequences, FiniteSets, TLC

VARIABLES page, calc, app, app2

vars == <<page, calc, app, app2>>

----------------------------------------------------------------------------
(* Exact arithmetic helpers                                                *)

CeilDiv(a, b) == IF a % b = 0 THEN a \div b ELSE a \div b + 1

Max(a, b) == IF a >= b THEN a ELSE b

\* 1024 * 1024 * 1024 bytes, counted in blocks of BlockBytes bytes
BlockBytes == 128
GiBBlocks == 8388608

BigZero == [h |-> 0, l |-> 0]

BigOf(n) == [h |-> n \div GiBBlocks, l |-> n % GiBBlocks]

BigAdd(x, y) ==
  LET s == x.l + y.l
  IN  [h |-> x.h + y.h + s \div GiBBlocks, l |-> s % GiBBlocks]

\* x * k for 0 <= k < 256
BigMulSmall(x, k) ==
  LET p == x.l * k
  IN  [h |-> x.h * k + p \div GiBBlocks, l |-> p % GiBBlocks]

RECURSIVE BigMul(_, _)
BigMul(x, k) ==
  IF k < 128 THEN BigMulSmall(x, k)
  ELSE BigAdd(BigMulSmall(BigMul(x, k \div 128), 128), BigMulSmall(x, k % 128))

BigLeq(x, y) == x.h < y.h \/ (x.h = y.h /\ x.l <= y.l)

\* x <= g GiB
BigLeqGiB(x, g) == x.h < g \/ (x.h = g /\ x.l = 0)

\* Math.ceil(x / (k GiB)) for k > 0
BigCeilDivGiB(x, k) == IF x.l = 0 THEN CeilDiv(x.h, k) ELSE x.h \div k + 1

----------------------------------------------------------------------------
(* Calculator: constant tables                                             *)

\* mutant: the 8-bit entry holds its bit count instead of its byte count
bytesPerParameter2_Int8Bits(q) ==
  CASE q = "fp32" -> 8
    [] q = "fp16" -> 4
    [] q = "bf16" -> 4
    [] q = "int8" -> 16
    [] q = "int4" -> 1
    [] q = "gptq" -> 1
    [] OTHER -> 4

\* mutant: an unknown key yields 1 byte per parameter
bytesPerParameter2_FallbackOne(q) ==
  CASE q = "fp32" -> 8
    [] q = "fp16" -> 4
    [] q = "bf16" -> 4
    [] q = "int8" -> 2
    [] q = "int4" -> 1
    [] q = "gptq" -> 1
    [] OTHER -> 2

\* bytesPerParameter, doubled (0.5 bytes -> 1); an unknown key yields `|| 2`
bytesPerParameter2(q) ==
  CASE q = "fp32" -> 8
    [] q = "fp16" -> 4
    [] q = "bf16" -> 4
    [] q = "int8" -> 2
    [] q = "int4" -> 1
    [] q = "gptq" -> 1
    [] OTHER -> 4

\* the quantization methods the Select offers
QuantizationMethods == {"fp32", "fp16", "bf16", "int8", "int4", "gptq"}

gpuVramSizes ==
  [rtx3090 |-> 24, rtx4090 |-> 24, a100_40gb |-> 40, a100_80gb |-> 80,
   h100 |-> 80, rtx3080 |-> 10, rtx4080 |-> 16, rtx3070 |-> 8,
   rtx4070 |-> 12, a10 |-> 24, l4 |-> 24, a30 |-> 24, a40 |-> 48]

\* gpuVramSizes[gpuModel] || 24
selectedGpuVram(g) == IF g \in DOMAIN gpuVramSizes THEN gpuVramSizes[g] ELSE 24

\* a table whose first two entries carry each other's factor
gpuSpeedFactors10_Swapped ==
  [rtx3090 |-> 18, rtx4090 |-> 10, a100_40gb |-> 15, a100_80gb |-> 16,
   h100 |-> 25, rtx3080 |-> 7, rtx4080 |-> 12, rtx3070 |-> 5,
   rtx4070 |-> 8, a10 |-> 9, l4 |-> 9, a30 |-> 11, a40 |-> 13]

\* relative speed factors, in tenths
gpuSpeedFactors10 ==
  [rtx3090 |-> 10, rtx4090 |-> 18, a100_40gb |-> 15, a100_80gb |-> 16,
   h100 |-> 25, rtx3080 |-> 7, rtx4080 |-> 12, rtx3070 |-> 5,
   rtx4070 |-> 8, a10 |-> 9, l4 |-> 9, a30 |-> 11, a40 |-> 13]

\* gpuSpeedFactors[gpuModel] || 1.0, in tenths
speedFactor10(g) ==
  IF g \in DOMAIN gpuSpeedFactors10 THEN gpuSpeedFactors10[g] ELSE 10

\* quantizationSpeedFactor, in tenths; an unknown key yields `|| 1.0`
quantizationSpeedFactor10(q) ==
  CASE q = "fp32" -> 5
    [] q = "fp16" -> 10
    [] q = "bf16" -> 10
    [] q = "int8" -> 15
    [] q = "int4" -> 20
    [] q = "gptq" -> 18
    [] OTHER -> 10

----------------------------------------------------------------------------
(* Calculator: calculateRequirements                                       *)

\* 10^8 parameters (one tenth of a billion), divided by 256
TenthBillion256 == 390625
\* 4 * 768 * 768, divided by 256
HeadParams256 == 9216
headDim == 128
\* bytes per cached fp16 value: the trailing `* 2` of kvCacheSize
KvBytesFp16 == 2

\* modelSize * 1000000000 * bytesPerParameter bytes, in blocks:
\* ms tenths of a billion, bpp2 half-bytes: ms * 10^8 * bpp2 / 2 / 128
modelSizeBytes(ms, bpp2) == BigMul(BigOf(ms * bpp2), TenthBillion256)

\* Math.ceil((modelSize * 1000000000) / (4 * 768 * 768))
numHeads(ms) == CeilDiv(ms * TenthBillion256, HeadParams256)

\* mutant: the context is split over the batch instead of multiplied by it
kvCacheBytes_SplitBatch(ms, ctx, batch) ==
  BigMul(BigOf((2 * numHeads(ms) * headDim * KvBytesFp16) \div BlockBytes), ctx \div batch)

\* mutant: the factor 2 for K and V is missing
kvCacheBytes_KeysOnly(ms, ctx, batch) ==
  BigMul(BigMul(BigOf((numHeads(ms) * headDim * KvBytesFp16) \div BlockBytes), ctx), batch)

\* 2 * numHeads * headDim * contextLength * batchSize * 2 bytes, in blocks
kvCacheBytes(ms, ctx, batch) ==
  BigMul(BigMul(BigOf((2 * numHeads(ms) * headDim * KvBytesFp16) \div BlockBytes), ctx), batch)

\* mutant: the enable flag is tested the wrong way round
kvCacheSize_Inverted(ms, ctx, kv, batch) ==
  IF ~kv THEN kvCacheBytes(ms, ctx, batch) ELSE BigZero

kvCacheSize(ms, ctx, kv, batch) ==
  IF kv THEN kvCacheBytes(ms, ctx, batch) ELSE BigZero

\* totalVramBytes, in blocks: totalVramGB = h + l / GiBBlocks
totalVram(ms, q, ctx, kv, batch) ==
  BigAdd(modelSizeBytes(ms, bytesPerParameter2(q)), kvCacheSize(ms, ctx, kv, batch))

\* ramRequired = totalVramGB * 1.5, doubled (blocks of a half GB scale)
ramRequired2(vram) == BigMulSmall(vram, 3)

\* diskSpaceGB = modelSizeBytes / 2^30 * 1.1, times ten
diskSpaceGB10(ms, q) == BigMulSmall(modelSizeBytes(ms, bytesPerParameter2(q)), 11)

\* the IEEE class of gpusNeededCalc: totalVramGB / (systemRAM * 0.75) is a
\* division by zero when systemRAM is 0 (x / 0 = Infinity, 0 / 0 = NaN), and
\* Math.ceil keeps both
gpusNeededKind(vram, unified, ram) ==
  IF unified /\ ram = 0
    THEN IF vram = BigZero THEN "NaN" ELSE "Infinity"
    ELSE "finite"

\* mutant: Math.floor instead of Math.ceil for discrete GPUs
gpusNeededCalc_Floor(vram, unified, ram, g) ==
  IF unified
    THEN IF ram = 0 THEN 0 ELSE BigCeilDivGiB(BigMulSmall(vram, 4), 3 * ram)
    ELSE vram.h \div selectedGpuVram(g)

\* gpusNeededCalc, where it is finite (0 stands in where gpusNeededKind is not)
gpusNeededCalc(vram, unified, ram, g) ==
  IF unified
    THEN IF ram = 0 THEN 0 ELSE BigCeilDivGiB(BigMulSmall(vram, 4), 3 * ram)
    ELSE BigCeilDivGiB(vram, selectedGpuVram(g))

\* the non-finite doubles, as fractions with denominator 0
PosInfinity == [n |-> 1, d |-> 0]
NaN == [n |-> 0, d |-> 0]

\* inferenceSpeedCalc = 30 * speedFactor * quantizationSpeedFactor * (7 / modelSize) * gpus
\* as the fraction n / d (tenths cancel: 30 * sf10/10 * qf10/10 * 70/ms);
\* 7 / 0 is Infinity, Infinity * 0 and anything * NaN are NaN
baseSpeed == 30
inferenceSpeedCalc(ms, q, g, gpus, kind) ==
  IF kind = "NaN" THEN NaN
  ELSE IF ms = 0 THEN (IF kind = "finite" /\ gpus = 0 THEN NaN ELSE PosInfinity)
  ELSE IF kind = "Infinity" THEN PosInfinity
  ELSE [n |-> (baseSpeed * speedFactor10(g) * quantizationSpeedFactor10(q) * 7 * gpus) \div 10,
        d |-> ms]

\* mutant: the disk size is taken from the total (weights plus KV cache)
calculateRequirements_DiskFromTotal(c) ==
  LET vram == totalVram(c.modelSize, c.quantizationMethod, c.contextLength,
                        c.enableKVCache, c.batchSize)
      gpus == gpusNeededCalc(vram, c.unifiedMemory, c.systemRAM, c.gpuModel)
      kind == gpusNeededKind(vram, c.unifiedMemory, c.systemRAM)
  IN  [vramRequired |-> vram,
       systemRAMRequired |-> ramRequired2(vram),
       diskSpace |-> BigMulSmall(vram, 11),
       gpusNeeded |-> gpus,
       gpusNeededKind |-> kind,
       inferenceSpeed |-> inferenceSpeedCalc(c.modelSize, c.quantizationMethod, c.gpuModel,
                                             gpus, kind)]

\* mutant: the VRAM estimate never drops below the one stored before
calculateRequirements_KeepsPeakVram(c) ==
  LET now == totalVram(c.modelSize, c.quantizationMethod, c.contextLength,
                       c.enableKVCache, c.batchSize)
      vram == IF BigLeq(now, c.vramRequired) THEN c.vramRequired ELSE now
      gpus == gpusNeededCalc(vram, c.unifiedMemory, c.systemRAM, c.gpuModel)
      kind == gpusNeededKind(vram, c.unifiedMemory, c.systemRAM)
  IN  [vramRequired |-> vram,
       systemRAMRequired |-> ramRequired2(vram),
       diskSpace |-> diskSpaceGB10(c.modelSize, c.quantizationMethod),
       gpusNeeded |-> gpus,
       gpusNeededKind |-> kind,
       inferenceSpeed |-> inferenceSpeedCalc(c.modelSize, c.quantizationMethod, c.gpuModel,
                                             gpus, kind)]

\* the five values calculateRequirements stores, from the rendered inputs
calculateRequirements(c) ==
  LET vram == totalVram(c.modelSize, c.quantizationMethod, c.contextLength,
                        c.enableKVCache, c.batchSize)
      gpus == gpusNeededCalc(vram, c.unifiedMemory, c.systemRAM, c.gpuModel)
      kind == gpusNeededKind(vram, c.unifiedMemory, c.systemRAM)
  IN  [vramRequired |-> vram,
       systemRAMRequired |-> ramRequired2(vram),
       diskSpace |-> diskSpaceGB10(c.modelSize, c.quantizationMethod),
       gpusNeeded |-> gpus,
       gpusNeededKind |-> kind,
       inferenceSpeed |-> inferenceSpeedCalc(c.modelSize, c.quantizationMethod, c.gpuModel,
                                             gpus, kind)]

----------------------------------------------------------------------------
(* Calculator: state and handlers                                          *)

\* bounds of the explored input values
MaxModelScale == 1
MaxContextScale == 1
MaxBatch == 2
MaxRamScale == 1
MaxPresets == 2

\* slider positions explored, in tenths of a billion (slider: 0.1 .. 70, step 0.1)
ModelSizeChoices == {1} \cup {m \in {70 * k : k \in 1..MaxModelScale} : m <= 700}

\* slider positions explored (slider: 1024 .. 128000, step 1024)
ContextLengthChoices == {1024} \cup {n \in {4096 * k : k \in 1..MaxContextScale} : n <= 128000}

\* slider positions explored (slider: 1 .. 32, step 1)
BatchSizeChoices == {b \in 1..MaxBatch : b <= 32}

\* slider positions explored (slider: 8 .. 192, step 4)
SystemRAMChoices == {8} \cup {r \in {32 * k : k \in 1..MaxRamScale} : r <= 192}

\* the GPUSelector items explored: the default, the smallest and a largest card
GpuChoices == {"rtx4090", "rtx3070", "a100_80gb"}

\* a catalog whose largest model counts all eight experts (8 x 47B) and
\* names a quantization that Calculator has no entry for
presets_AllExperts ==
  << [name |-> "Llama 3 8B", parameters |-> 80, defaultQuantization |-> "fp16", defaultContext |-> 8192],
     [name |-> "Llama 3 70B", parameters |-> 700, defaultQuantization |-> "int8", defaultContext |-> 8192],
     [name |-> "Mistral 7B", parameters |-> 70, defaultQuantization |-> "fp16", defaultContext |-> 8192],
     [name |-> "Gemma 2B", parameters |-> 20, defaultQuantization |-> "fp16", defaultContext |-> 8192],
     [name |-> "Gemma 7B", parameters |-> 70, defaultQuantization |-> "fp16", defaultContext |-> 8192],
     [name |-> "Falcon 7B", parameters |-> 70, defaultQuantization |-> "fp16", defaultContext |-> 2048],
     [name |-> "GPT-J 6B", parameters |-> 60, defaultQuantization |-> "fp16", defaultContext |-> 2048],
     [name |-> "Mixtral 8x7B", parameters |-> 3760, defaultQuantization |-> "q8_0", defaultContext |-> 32768] >>

\* the catalog of ModelPresets (parameters in tenths of a billion)
presets ==
  << [name |-> "Llama 3 8B", parameters |-> 80, defaultQuantization |-> "fp16", defaultContext |-> 8192],
     [name |-> "Llama 3 70B", parameters |-> 700, defaultQuantization |-> "int8", defaultContext |-> 8192],
     [name |-> "Mistral 7B", parameters |-> 70, defaultQuantization |-> "fp16", defaultContext |-> 8192],
     [name |-> "Gemma 2B", parameters |-> 20, defaultQuantization |-> "fp16", defaultContext |-> 8192],
     [name |-> "Gemma 7B", parameters |-> 70, defaultQuantization |-> "fp16", defaultContext |-> 8192],
     [name |-> "Falcon 7B", parameters |-> 70, defaultQuantization |-> "fp16", defaultContext |-> 2048],
     [name |-> "GPT-J 6B", parameters |-> 60, defaultQuantization |-> "fp16", defaultContext |-> 2048],
     [name |-> "Mixtral 8x7B", parameters |-> 470, defaultQuantization |-> "int8", defaultContext |-> 32768] >>

PresetChoices == {i \in 1..Len(presets) : i <= MaxPresets}

\* the useState initial values of Calculator; the effect runs once after mount
CalcInit ==
  [modelSize |-> 70, contextLength |-> 4096, quantizationMethod |-> "fp16",
   enableKVCache |-> TRUE, batchSize |-> 1,
   gpuModel |-> "rtx4090", systemRAM |-> 32, unifiedMemory |-> FALSE,
   vramRequired |-> BigZero, systemRAMRequired |-> BigZero, diskSpace |-> BigZero,
   gpusNeeded |-> 1, gpusNeededKind |-> "finite", inferenceSpeed |-> [n |-> 0, d |-> 1],
   effectPending |-> TRUE]

\* mutant: systemRAM is missing from the dependency list
CalcInputs_WithoutSystemRAM(c) ==
  [modelSize |-> c.modelSize, contextLength |-> c.contextLength,
   quantizationMethod |-> c.quantizationMethod, enableKVCache |-> c.enableKVCache,
   batchSize |-> c.batchSize, gpuModel |-> c.gpuModel,
   unifiedMemory |-> c.unifiedMemory]

\* the eight inputs: the dependency list of the effect
CalcInputs(c) ==
  [modelSize |-> c.modelSize, contextLength |-> c.contextLength,
   quantizationMethod |-> c.quantizationMethod, enableKVCache |-> c.enableKVCache,
   batchSize |-> c.batchSize, gpuModel |-> c.gpuModel, systemRAM |-> c.systemRAM,
   unifiedMemory |-> c.unifiedMemory]

\* a handler has set the inputs to those of c2: the component re-renders, and the
\* effect is scheduled exactly when a dependency differs from the last render
Rendered(c2) ==
  /\ calc' = [c2 EXCEPT !.effectPending = (CalcInputs(c2) # CalcInputs(calc))]
  /\ UNCHANGED <<page, app, app2>>

\* handlers run between renders: the pending effect is flushed before the next update
CalcIdle == page = "calculator" /\ ~calc.effectPending

SetModelSize ==
  /\ CalcIdle
  /\ \E v \in ModelSizeChoices : Rendered([calc EXCEPT !.modelSize = v])

SetContextLength ==
  /\ CalcIdle
  /\ \E v \in ContextLengthChoices : Rendered([calc EXCEPT !.contextLength = v])

SetQuantizationMethod ==
  /\ CalcIdle
  /\ \E v \in QuantizationMethods : Rendered([calc EXCEPT !.quantizationMethod = v])

SetEnableKVCache ==
  /\ CalcIdle
  /\ \E v \in BOOLEAN : Rendered([calc EXCEPT !.enableKVCache = v])

SetBatchSize ==
  /\ CalcIdle
  /\ \E v \in BatchSizeChoices : Rendered([calc EXCEPT !.batchSize = v])

SetGpuModel ==
  /\ CalcIdle
  /\ \E v \in GpuChoices : Rendered([calc EXCEPT !.gpuModel = v])

SetUnifiedMemory ==
  /\ CalcIdle
  /\ \E v \in BOOLEAN : Rendered([calc EXCEPT !.unifiedMemory = v])

\* the system RAM slider is rendered only under unified memory
SetSystemRAM ==
  /\ CalcIdle
  /\ calc.unifiedMemory
  /\ \E v \in SystemRAMChoices : Rendered([calc EXCEPT !.systemRAM = v])

\* the field contents explored for the number inputs: the emptied field and "0"
TypedTexts == {"", "0"}

\* Number(e.target.value) for the explored field contents
NumberOf(t) == CASE t = "" -> 0 [] t = "0" -> 0 [] t = "-1" -> -1

\* the number Input beside each slider: setX(Number(e.target.value)), unchecked
TypeModelSize ==
  /\ CalcIdle
  /\ \E t \in TypedTexts : Rendered([calc EXCEPT !.modelSize = NumberOf(t)])

TypeContextLength ==
  /\ CalcIdle
  /\ \E t \in TypedTexts : Rendered([calc EXCEPT !.contextLength = NumberOf(t)])

TypeBatchSize ==
  /\ CalcIdle
  /\ \E t \in TypedTexts : Rendered([calc EXCEPT !.batchSize = NumberOf(t)])

TypeSystemRAM ==
  /\ CalcIdle
  /\ calc.unifiedMemory
  /\ \E t \in TypedTexts : Rendered([calc EXCEPT !.systemRAM = NumberOf(t)])

\* mutant: a preset also puts the batch size back to 1
applyModelPreset_ResetsBatch ==
  /\ CalcIdle
  /\ \E i \in PresetChoices :
       Rendered([calc EXCEPT !.modelSize = presets[i].parameters,
                             !.quantizationMethod = presets[i].defaultQuantization,
                             !.contextLength = presets[i].defaultContext,
                             !.batchSize = 1])

applyModelPreset ==
  /\ CalcIdle
  /\ \E i \in PresetChoices :
       Rendered([calc EXCEPT !.modelSize = presets[i].parameters,
                             !.quantizationMethod = presets[i].defaultQuantization,
                             !.contextLength = presets[i].defaultContext])

\* mutant: the effect also raises a system RAM below the slider minimum to it
RecomputeEffect_ClampsSystemRAM ==
  /\ page = "calculator"
  /\ calc.effectPending
  /\ LET r == calculateRequirements(calc)
     IN  Rendered([calc EXCEPT !.vramRequired = r.vramRequired,
                              !.systemRAMRequired = r.systemRAMRequired,
                              !.diskSpace = r.diskSpace,
                              !.gpusNeeded = r.gpusNeeded,
                              !.gpusNeededKind = r.gpusNeededKind,
                              !.inferenceSpeed = r.inferenceSpeed,
                              !.systemRAM = Max(calc.systemRAM, 8)])

\* useEffect(() => calculateRequirements(), [the eight inputs]): the five setters
\* run, the component re-renders, and the effect is scheduled again exactly when
\* a dependency differs from the render the effect ran in
RecomputeEffect ==
  /\ page = "calculator"
  /\ calc.effectPending
  /\ LET r == calculateRequirements(calc)
     IN  Rendered([calc EXCEPT !.vramRequired = r.vramRequired,
                              !.systemRAMRequired = r.systemRAMRequired,
                              !.diskSpace = r.diskSpace,
                              !.gpusNeeded = r.gpusNeeded,
                              !.gpusNeededKind = r.gpusNeededKind,
                              !.inferenceSpeed = r.inferenceSpeed])

----------------------------------------------------------------------------
(* ResultsDisplay, as rendered by Calculator with its current state        *)

\* a copy of the table that misses the update of one capacity
resultsGpuVramSizes_Stale ==
  [rtx3090 |-> 24, rtx4090 |-> 24, a100_40gb |-> 40, a100_80gb |-> 40,
   h100 |-> 80, rtx3080 |-> 10, rtx4080 |-> 16, rtx3070 |-> 8,
   rtx4070 |-> 12, a10 |-> 24, l4 |-> 24, a30 |-> 24, a40 |-> 48]

\* the component's own gpuVramSizes, in GB
resultsGpuVramSizes ==
  [rtx3090 |-> 24, rtx4090 |-> 24, a100_40gb |-> 40, a100_80gb |-> 80,
   h100 |-> 80, rtx3080 |-> 10, rtx4080 |-> 16, rtx3070 |-> 8,
   rtx4070 |-> 12, a10 |-> 24, l4 |-> 24, a30 |-> 24, a40 |-> 48]

\* gpuVramSizes[gpuModel] || 24
resultsSelectedGpuVram(g) ==
  IF g \in DOMAIN resultsGpuVramSizes THEN resultsGpuVramSizes[g] ELSE 24

\* vramRequired <= systemRAM * 0.75, or vramRequired <= selectedGpuVram
isVramSufficient(vram, unified, ram, g) ==
  IF unified
    THEN BigLeqGiB(BigMulSmall(vram, 4), 3 * ram)
    ELSE BigLeqGiB(vram, resultsSelectedGpuVram(g))

----------------------------------------------------------------------------
(* GPUSelector                                                             *)

\* the SelectItems: value and the capacity (GB) printed in the label
gpuSelectorItems ==
  << [value |-> "rtx4090", labelGB |-> 24], [value |-> "rtx3090", labelGB |-> 24],
     [value |-> "rtx4080", labelGB |-> 16], [value |-> "rtx3080", labelGB |-> 10],
     [value |-> "rtx4070", labelGB |-> 12], [value |-> "rtx3070", labelGB |-> 8],
     [value |-> "h100", labelGB |-> 80], [value |-> "a100_80gb", labelGB |-> 80],
     [value |-> "a100_40gb", labelGB |-> 40], [value |-> "a40", labelGB |-> 48],
     [value |-> "a30", labelGB |-> 24], [value |-> "a10", labelGB |-> 24],
     [value |-> "l4", labelGB |-> 24] >>

\* the values onValueChange can deliver
gpuSelectorValues == {gpuSelectorItems[i].value : i \in 1..Len(gpuSelectorItems)}

----------------------------------------------------------------------------
(* QuantizationComparison                                                  *)

\* a chart that sizes the KV cache for a single sequence
calculateVram_SingleSequence(ms, ctx, kv, batch, bpp2) ==
  LET numHeadsQ == CeilDiv(ms * TenthBillion256, HeadParams256)
      kvQ == IF kv
               THEN BigMul(BigOf((2 * numHeadsQ * headDim * 2) \div BlockBytes), ctx)
               ELSE BigZero
  IN  BigAdd(BigMul(BigOf(ms * bpp2), TenthBillion256), kvQ)

\* calculateVram(bytesPerParameter), bytesPerParameter doubled, in blocks
calculateVram(ms, ctx, kv, batch, bpp2) ==
  LET numHeadsQ == CeilDiv(ms * TenthBillion256, HeadParams256)
      kvQ == IF kv
               THEN BigMul(BigMul(BigOf((2 * numHeadsQ * headDim * 2) \div BlockBytes), ctx), batch)
               ELSE BigZero
  IN  BigAdd(BigMul(BigOf(ms * bpp2), TenthBillion256), kvQ)

\* quantizationMethods, bytesPerParameter doubled
quantizationMethods ==
  << [name |-> "FP32", bytesPerParameter2 |-> 8],
     [name |-> "FP16/BF16", bytesPerParameter2 |-> 4],
     [name |-> "INT8", bytesPerParameter2 |-> 2],
     [name |-> "INT4", bytesPerParameter2 |-> 1],
     [name |-> "GPTQ", bytesPerParameter2 |-> 1] >>

----------------------------------------------------------------------------
(* InferenceSpeedEstimator, as rendered by Calculator with its current state *)

\* its own copy of the GPU speed factors, in tenths
estimatorGpuSpeedFactors10 ==
  [rtx3090 |-> 10, rtx4090 |-> 18, a100_40gb |-> 15, a100_80gb |-> 16,
   h100 |-> 25, rtx3080 |-> 7, rtx4080 |-> 12, rtx3070 |-> 5,
   rtx4070 |-> 8, a10 |-> 9, l4 |-> 9, a30 |-> 11, a40 |-> 13]

\* gpuSpeedFactors[gpuModel] || 1.0, in tenths
estimatorSpeedFactor10(g) ==
  IF g \in DOMAIN estimatorGpuSpeedFactors10 THEN estimatorGpuSpeedFactors10[g] ELSE 10

\* quantizationSpeedFactors[quantizationMethod] || 1.0, in tenths
estimatorQuantFactor10(q) ==
  CASE q = "fp32" -> 5
    [] q = "fp16" -> 10
    [] q = "bf16" -> 10
    [] q = "int8" -> 15
    [] q = "int4" -> 20
    [] q = "gptq" -> 18
    [] OTHER -> 10

\* the batch sizes the chart is drawn for
batchSizes == << 1, 2, 4, 8, 16, 32 >>

\* Math.log2 of a power of two
RECURSIVE Log2(_)
Log2(b) == IF b <= 1 THEN 0 ELSE 1 + Log2(b \div 2)

\* mutant: the offset 0.5 is missing
batchSizeFactor_NoOffset(b) == [n |-> Log2(b), d |-> Log2(4)]

\* batchSizeFactor = Math.log2(batchSize) / Math.log2(4) + 0.5, as the fraction n / d
batchSizeFactor(b) == [n |-> 2 * Log2(b) + Log2(4), d |-> 2 * Log2(4)]

\* speed of one chart point, before rounding, as the fraction n / d: the product
\* baseSpeed * speedFactor * quantFactor * (7 / modelSize) * gpusNeeded * batchSizeFactor
chartSpeed(c, b) ==
  IF c.gpusNeededKind = "NaN" THEN NaN
  ELSE IF c.modelSize = 0
         THEN (IF c.gpusNeededKind = "finite" /\ c.gpusNeeded = 0 THEN NaN ELSE PosInfinity)
  ELSE IF c.gpusNeededKind = "Infinity" THEN PosInfinity
  ELSE [n |-> ((baseSpeed * estimatorSpeedFactor10(c.gpuModel)
                  * estimatorQuantFactor10(c.quantizationMethod) * 7 * c.gpusNeeded) \div 10)
                * batchSizeFactor(b).n,
        d |-> c.modelSize * batchSizeFactor(b).d]

\* x.toFixed(1) of a finite x >= 0, in tenths (ties rounded up)
toFixed1(x) == (20 * x.n + x.d) \div (2 * x.d)

\* chartData: the batch sizes charted and the speed of each point
chartData(c) == [i \in 1..Len(batchSizes) |-> [batchSize |-> batchSizes[i],
                                                speed |-> chartSpeed(c, batchSizes[i])]]

\* timeFor1000Tokens = 1000 / inferenceSpeed
timeFor1000Tokens(speed) ==
  IF speed.d = 0 THEN (IF speed.n = 0 THEN NaN ELSE [n |-> 0, d |-> 1])
  ELSE IF speed.n = 0 THEN PosInfinity
  ELSE [n |-> 1000 * speed.d, d |-> speed.n]

----------------------------------------------------------------------------
(* App (src/App.tsx, first component): helper functions                    *)

ModelQuantizations == {"F32", "F16", "Q8", "Q6", "Q5", "Q4", "Q3", "Q2", "GPTQ", "AWQ"}
KvCacheQuantizations == {"F32", "F16", "Q8", "Q5", "Q4"}

\* getModelQuantFactor, times 40
getModelQuantFactor40(q) ==
  CASE q = "F32" -> 160
    [] q = "F16" -> 80
    [] q = "Q8" -> 40
    [] q = "Q6" -> 30
    [] q = "Q5" -> 25
    [] q = "Q4" -> 20
    [] q = "Q3" -> 15
    [] q = "Q2" -> 10
    [] q = "GPTQ" -> 16
    [] q = "AWQ" -> 14
    [] OTHER -> 40

\* a KV-cache table whose 5-bit entry was copied from the 4-bit one
getKvCacheQuantFactor40_Q5AsQ4(k) ==
  CASE k = "F32" -> 160
    [] k = "F16" -> 80
    [] k = "Q8" -> 40
    [] k = "Q5" -> 20
    [] k = "Q4" -> 20
    [] OTHER -> 40

\* getKvCacheQuantFactor, times 40
getKvCacheQuantFactor40(k) ==
  CASE k = "F32" -> 160
    [] k = "F16" -> 80
    [] k = "Q8" -> 40
    [] k = "Q5" -> 25
    [] k = "Q4" -> 20
    [] OTHER -> 40

\* contextScale = contextLength / 2048, at least 1; times 16 (contextLength in steps of 128)
ContextStep == 128

\* a scale that is not held at 1 below 2048 tokens
contextScale16_NoFloor(ctx) == ctx \div ContextStep

contextScale16(ctx) == Max(16, ctx \div ContextStep)

\* VRAM in GB is a fraction over AppVramDen = 40 (factor) * 16 (context scale) * 5 (alpha)
AppVramDen == 3200

\* modelMem = params * modelFactor * contextScale, times AppVramDen
modelMem(p, q, ctx) == p * getModelQuantFactor40(q) * contextScale16(ctx) * 5

\* a KV-cache term that is charged whether or not the cache is enabled
kvCacheMem_IgnoresFlag(p, k, ctx, useKv) ==
  p * getKvCacheQuantFactor40(k) * contextScale16(ctx)

\* kvCacheMem = params * kvFactor * contextScale * alpha (0.2), times AppVramDen
kvCacheMem(p, k, ctx, useKv) ==
  IF useKv THEN p * getKvCacheQuantFactor40(k) * contextScale16(ctx) ELSE 0

\* calculateRequiredVram(), times AppVramDen
calculateRequiredVram(a) ==
  modelMem(a.params, a.modelQuant, a.contextLength)
    + kvCacheMem(a.params, a.kvCacheQuant, a.contextLength, a.useKvCache)

\* getMaxUnifiedVram(memGB) = memGB * 0.75, times 4
getMaxUnifiedVram4(memGB) == memGB * 3

\* calculateHardwareRecommendation(); systemRamNeeded is times AppVramDen
calculateHardwareRecommendation(a) ==
  LET requiredVram == calculateRequiredVram(a)
      recSystemMemory == a.systemMemory
  IN  IF a.memoryMode = "UNIFIED_MEMORY"
        THEN IF requiredVram * 4 <= getMaxUnifiedVram4(recSystemMemory) * AppVramDen
               THEN [gpuType |-> "Unified memory", fitsUnified |-> TRUE,
                     systemRamNeeded |-> recSystemMemory * AppVramDen, gpusRequired |-> 1]
               ELSE [gpuType |-> "Unified memory (insufficient)", fitsUnified |-> FALSE,
                     systemRamNeeded |-> recSystemMemory * AppVramDen, gpusRequired |-> 0]
        ELSE IF requiredVram <= a.gpuVram * AppVramDen
               THEN [gpuType |-> "Single GPU", fitsUnified |-> FALSE,
                     systemRamNeeded |-> Max(recSystemMemory * AppVramDen, requiredVram),
                     gpusRequired |-> 1]
               ELSE [gpuType |-> "Discrete GPUs", fitsUnified |-> FALSE,
                     systemRamNeeded |-> Max(recSystemMemory * AppVramDen, requiredVram),
                     gpusRequired |-> CeilDiv(requiredVram, a.gpuVram * AppVramDen)]

\* bitsPerParam of calculateOnDiskSize
bitsPerParam(q) ==
  CASE q = "F32" -> 32
    [] q = "F16" -> 16
    [] q = "Q8" -> 8
    [] q = "Q6" -> 6
    [] q = "Q5" -> 5
    [] q = "Q4" -> 4
    [] q = "Q3" -> 3
    [] q = "Q2" -> 2
    [] q = "GPTQ" -> 4
    [] q = "AWQ" -> 4
    [] OTHER -> 8

\* calculateOnDiskSize() = params * 1e9 * bitsPerParam / 8 / 1e9 * 1.1, times AppDiskDen
AppDiskDen == 80
calculateOnDiskSize(a) == a.params * bitsPerParam(a.modelQuant) * 11

----------------------------------------------------------------------------
(* App: state and handlers                                                 *)

MaxParamsScale == 1
MaxAppContextScale == 2
MaxAppRamScale == 1

\* slider positions explored (range input: 1 .. 1000)
ParamsChoices == {1, 7, 70} \cup {n \in {65 * k : k \in 1..MaxParamsScale} : n <= 1000}

\* slider positions explored (range input: 128 .. 32768, step 128)
AppContextChoices == {128} \cup {n \in {2048 * k : k \in 1..MaxAppContextScale} : n <= 32768}

\* slider positions explored (range input: 8 .. 512, step 8)
SystemMemoryChoices == {8} \cup {n \in {128 * k : k \in 1..MaxAppRamScale} : n <= 512}

\* the options of the GPU VRAM select
GpuVramOptions == {8, 12, 16, 24, 32, 40, 48, 80}

MemoryModes == {"DISCRETE_GPU", "UNIFIED_MEMORY"}

\* the useState initial values of App
AppInit ==
  [params |-> 65, modelQuant |-> "Q4", useKvCache |-> TRUE, kvCacheQuant |-> "F16",
   contextLength |-> 4096, memoryMode |-> "DISCRETE_GPU", systemMemory |-> 128,
   gpuVram |-> 24]

AppMounted == page = "app"

setParams ==
  /\ AppMounted
  /\ \E v \in ParamsChoices : app' = [app EXCEPT !.params = v]
  /\ UNCHANGED <<page, calc, app2>>

setModelQuant ==
  /\ AppMounted
  /\ \E v \in ModelQuantizations : app' = [app EXCEPT !.modelQuant = v]
  /\ UNCHANGED <<page, calc, app2>>

setAppContextLength ==
  /\ AppMounted
  /\ \E v \in AppContextChoices : app' = [app EXCEPT !.contextLength = v]
  /\ UNCHANGED <<page, calc, app2>>

\* onChange={() => setUseKvCache(!useKvCache)}
toggleUseKvCache ==
  /\ AppMounted
  /\ app' = [app EXCEPT !.useKvCache = ~app.useKvCache]
  /\ UNCHANGED <<page, calc, app2>>

\* the select stays mounted (only folded away) while the KV cache is off
setKvCacheQuant ==
  /\ AppMounted
  /\ \E v \in KvCacheQuantizations : app' = [app EXCEPT !.kvCacheQuant = v]
  /\ UNCHANGED <<page, calc, app2>>

setMemoryMode ==
  /\ AppMounted
  /\ \E v \in MemoryModes : app' = [app EXCEPT !.memoryMode = v]
  /\ UNCHANGED <<page, calc, app2>>

\* the GPU VRAM select is rendered only for discrete GPUs
setGpuVram ==
  /\ AppMounted
  /\ app.memoryMode = "DISCRETE_GPU"
  /\ \E v \in GpuVramOptions : app' = [app EXCEPT !.gpuVram = v]
  /\ UNCHANGED <<page, calc, app2>>

setSystemMemory ==
  /\ AppMounted
  /\ \E v \in SystemMemoryChoices : app' = [app EXCEPT !.systemMemory = v]
  /\ UNCHANGED <<page, calc, app2>>

\* the field contents explored for the number inputs of App: those above, a
\* negative number (min is not enforced on typed text) and a text that
\* Number() maps to NaN, which reaches the handler when the field does not
\* sanitise its value
AppTypedTexts == TypedTexts \cup {"-1", "abc"}

\* isNaN(Number(event.target.value)) for the explored field contents
NumberIsNaN(t) == ~(t = "" \/ t = "0" \/ t = "-1")

\* a handler that also discards the numbers a range input could not hold
handleInputChange_PositiveOnly(t, old) ==
  IF ~NumberIsNaN(t) /\ NumberOf(t) > 0 THEN NumberOf(t) ELSE old

\* handleInputChange(event, setter): the new value of the state the setter owns
handleInputChange(t, old) == IF ~NumberIsNaN(t) THEN NumberOf(t) ELSE old

\* the number inputs above the range inputs
typeParams ==
  /\ AppMounted
  /\ \E t \in AppTypedTexts : app' = [app EXCEPT !.params = handleInputChange(t, app.params)]
  /\ UNCHANGED <<page, calc, app2>>

typeAppContextLength ==
  /\ AppMounted
  /\ \E t \in AppTypedTexts :
       app' = [app EXCEPT !.contextLength = handleInputChange(t, app.contextLength)]
  /\ UNCHANGED <<page, calc, app2>>

typeSystemMemory ==
  /\ AppMounted
  /\ \E t \in AppTypedTexts :
       app' = [app EXCEPT !.systemMemory = handleInputChange(t, app.systemMemory)]
  /\ UNCHANGED <<page, calc, app2>>

\* what App renders from its state
recommendation == calculateHardwareRecommendation(app)
onDiskSize == calculateOnDiskSize(app)

\* the conditional lines of the results panel
\* {recommendation.gpusRequired > 1 && ...}
showsGpuCount == recommendation.gpusRequired > 1

\* {recommendation.gpusRequired === 1 && ...}
showsSingleGpu == recommendation.gpusRequired = 1

\* {memoryMode === 'UNIFIED_MEMORY' && recommendation.fitsUnified && ...}
showsFitsUnified == app.memoryMode = "UNIFIED_MEMORY" /\ recommendation.fitsUnified

\* a panel that shows the warning whenever fitsUnified is false
showsExceedsUnified_AnyMode == ~recommendation.fitsUnified

\* {memoryMode === 'UNIFIED_MEMORY' && !recommendation.fitsUnified && ...}
showsExceedsUnified == app.memoryMode = "UNIFIED_MEMORY" /\ ~recommendation.fitsUnified

----------------------------------------------------------------------------
(* App, second component of src/App.tsx (single quantization)              *)

Quantizations == {"FP32", "FP16", "INT8", "INT6", "INT4", "INT3", "INT2", "GPTQ", "AWQ"}

\* getQuantizationFactor, times 40
getQuantizationFactor40(q) ==
  CASE q = "FP32" -> 160
    [] q = "FP16" -> 80
    [] q = "INT8" -> 40
    [] q = "INT6" -> 30
    [] q = "INT4" -> 20
    [] q = "INT3" -> 15
    [] q = "INT2" -> 10
    [] q = "GPTQ" -> 16
    [] q = "AWQ" -> 14
    [] OTHER -> 40

\* kvCacheFactor = useKvCache ? 1.2 : 1.0, times 5
kvCacheFactor5(useKv) == IF useKv THEN 6 ELSE 5

\* calculateRequiredVram() = params * quantFactor * contextScale * kvCacheFactor,
\* times AppVramDen
calculateRequiredVram2(a) ==
  a.params * getQuantizationFactor40(a.quantization) * contextScale16(a.contextLength)
    * kvCacheFactor5(a.useKvCache)

\* const singleGpuVram = 24
singleGpuVram == 24

\* calculateHardwareRecommendation(); systemRamNeeded is times AppVramDen
calculateHardwareRecommendation2(a) ==
  LET requiredVram == calculateRequiredVram2(a)
      recSystemMemory == a.systemMemory
  IN  IF a.memoryMode = "UNIFIED_MEMORY"
        THEN IF requiredVram * 4 <= getMaxUnifiedVram4(recSystemMemory) * AppVramDen
               THEN [gpuType |-> "Unified memory", fitsUnified |-> TRUE,
                     systemRamNeeded |-> recSystemMemory * AppVramDen, gpusRequired |-> 1]
               ELSE [gpuType |-> "Unified memory (insufficient)", fitsUnified |-> FALSE,
                     systemRamNeeded |-> recSystemMemory * AppVramDen, gpusRequired |-> 0]
        ELSE IF requiredVram <= singleGpuVram * AppVramDen
               THEN [gpuType |-> "Single 24GB GPU", fitsUnified |-> FALSE,
                     systemRamNeeded |-> Max(recSystemMemory * AppVramDen, requiredVram),
                     gpusRequired |-> 1]
               ELSE [gpuType |-> "Discrete GPUs (24GB each)", fitsUnified |-> FALSE,
                     systemRamNeeded |-> Max(recSystemMemory * AppVramDen, requiredVram),
                     gpusRequired |-> CeilDiv(requiredVram, singleGpuVram * AppVramDen)]

\* bitsPerParam of calculateOnDiskSize
bitsPerParam2(q) ==
  CASE q = "FP32" -> 32
    [] q = "FP16" -> 16
    [] q = "INT8" -> 8
    [] q = "INT6" -> 6
    [] q = "INT4" -> 4
    [] q = "INT3" -> 3
    [] q = "INT2" -> 2
    [] q = "GPTQ" -> 4
    [] q = "AWQ" -> 4
    [] OTHER -> 8

\* calculateOnDiskSize(), times AppDiskDen
calculateOnDiskSize2(a) == a.params * bitsPerParam2(a.quantization) * 11

\* the useState initial values
App2Init ==
  [params |-> 65, quantization |-> "INT4", contextLength |-> 4096, useKvCache |-> TRUE,
   memoryMode |-> "DISCRETE_GPU", systemMemory |-> 128]

App2Mounted == page = "app2"

\* the inputs are range inputs and selects only (same ranges and steps as above)
setParams2 ==
  /\ App2Mounted
  /\ \E v \in ParamsChoices : app2' = [app2 EXCEPT !.params = v]
  /\ UNCHANGED <<page, calc, app>>

setQuantization ==
  /\ App2Mounted
  /\ \E v \in Quantizations : app2' = [app2 EXCEPT !.quantization = v]
  /\ UNCHANGED <<page, calc, app>>

setContextLength2 ==
  /\ App2Mounted
  /\ \E v \in AppContextChoices : app2' = [app2 EXCEPT !.contextLength = v]
  /\ UNCHANGED <<page, calc, app>>

\* onChange={() => setUseKvCache(!useKvCache)}
toggleUseKvCache2 ==
  /\ App2Mounted
  /\ app2' = [app2 EXCEPT !.useKvCache = ~app2.useKvCache]
  /\ UNCHANGED <<page, calc, app>>

setMemoryMode2 ==
  /\ App2Mounted
  /\ \E v \in MemoryModes : app2' = [app2 EXCEPT !.memoryMode = v]
  /\ UNCHANGED <<page, calc, app>>

setSystemMemory2 ==
  /\ App2Mounted
  /\ \E v \in SystemMemoryChoices : app2' = [app2 EXCEPT !.systemMemory = v]
  /\ UNCHANGED <<page, calc, app>>

\* what the component renders from its state
recommendation2 == calculateHardwareRecommendation2(app2)
onDiskSize2 == calculateOnDiskSize2(app2)

----------------------------------------------------------------------------
(* Specification                                                           *)

Init ==
  /\ page \in {"calculator", "app", "app2"}
  /\ calc = CalcInit
  /\ app = AppInit
  /\ app2 = App2Init

Next ==
  \/ SetModelSize
  \/ SetContextLength
  \/ SetQuantizationMethod
  \/ SetEnableKVCache
  \/ SetBatchSize
  \/ SetGpuModel
  \/ SetUnifiedMemory
  \/ SetSystemRAM
  \/ TypeModelSize
  \/ TypeContextLength
  \/ TypeBatchSize
  \/ TypeSystemRAM
  \/ applyModelPreset
  \/ RecomputeEffect
  \/ setParams
  \/ setModelQuant
  \/ setAppContextLength
  \/ toggleUseKvCache
  \/ setKvCacheQuant
  \/ setMemoryMode
  \/ setGpuVram
  \/ setSystemMemory
  \/ typeParams
  \/ typeAppContextLength
  \/ typeSystemMemory
  \/ setParams2
  \/ setQuantization
  \/ setContextLength2
  \/ toggleUseKvCache2
  \/ setMemoryMode2
  \/ setSystemMemory2

Spec == Init /\ [][Next]_vars

----------------------------------------------------------------------------
(* The lookups as pure functions: keys outside the tables                  *)

\* keys that no table holds
UnknownQuantization == "q5_k_m"
UnknownGpu == "rtx5090"

FallbackCalcInputs ==
  {[CalcInit EXCEPT !.modelSize = m, !.quantizationMethod = q, !.gpuModel = g,
                    !.enableKVCache = kv] :
     m \in ModelSizeChoices, q \in QuantizationMethods \cup {UnknownQuantization},
     g \in GpuChoices \cup {UnknownGpu}, kv \in BOOLEAN}

FallbackAppInputs ==
  {[AppInit EXCEPT !.params = p, !.modelQuant = q, !.kvCacheQuant = k] :
     p \in ParamsChoices, q \in ModelQuantizations \cup {UnknownQuantization},
     k \in KvCacheQuantizations \cup {UnknownQuantization}}

\* the estimations applied to inputs drawn with and without known keys
FallbackInit ==
  /\ page \in {"calculator", "app"}
  /\ calc \in (IF page = "calculator" THEN FallbackCalcInputs ELSE {CalcInit})
  /\ app \in (IF page = "app" THEN FallbackAppInputs ELSE {AppInit})
  /\ app2 = App2Init

FallbackNext ==
  \/ RecomputeEffect
  \/ toggleUseKvCache

FallbackSpec == FallbackInit /\ [][FallbackNext]_vars

----------------------------------------------------------------------------
(* Properties                                                              *)

\* the Calculator shows the results of its current inputs
CalcSettled == page = "calculator" /\ ~calc.effectPending

\* a valid ModelConfig: positive parameter count, context length and batch size
CalcValid == calc.modelSize > 0 /\ calc.contextLength > 0 /\ calc.batchSize > 0
AppValid == app.params > 0 /\ app.contextLength > 0

\* n = ceil(x / (k GiB)), stated without division: (n - 1) * k GiB < x <= n * k GiB
IsCeilOfGiB(n, x, k) == BigLeqGiB(x, n * k) /\ ~BigLeqGiB(x, (n - 1) * k)

\* C1: under unified memory the configuration fits exactly when the required VRAM
\* is at most 0.75 x system RAM, and the GPU count is 1 when it fits and 0 when
\* it does not (never 2 or more), in App and in Calculator alike.
C1_UnifiedGpuCount ==
  /\ (page = "app" /\ app.memoryMode = "UNIFIED_MEMORY") =>
       LET fits == calculateRequiredVram(app) * 4 <= 3 * app.systemMemory * AppVramDen
       IN  /\ recommendation.fitsUnified = fits
           /\ recommendation.gpusRequired = (IF fits THEN 1 ELSE 0)
  /\ (CalcSettled /\ calc.unifiedMemory) =>
       LET fits == BigLeqGiB(BigMulSmall(calc.vramRequired, 4), 3 * calc.systemRAM)
       IN  calc.gpusNeeded = (IF fits THEN 1 ELSE 0)

\* C2: under discrete GPUs, for a valid configuration, the GPU count is
\* ceil(requiredVram / capacity) and is at least 1.
C2_DiscreteGpuCount ==
  /\ (CalcSettled /\ ~calc.unifiedMemory /\ CalcValid) =>
       /\ calc.gpusNeeded >= 1
       /\ IsCeilOfGiB(calc.gpusNeeded, calc.vramRequired, selectedGpuVram(calc.gpuModel))
       /\ \A g \in DOMAIN gpuVramSizes :
            LET n == calculateRequirements([calc EXCEPT !.gpuModel = g]).gpusNeeded
            IN  n >= 1 /\ IsCeilOfGiB(n, calc.vramRequired, gpuVramSizes[g])
  /\ (page = "app" /\ app.memoryMode = "DISCRETE_GPU" /\ AppValid) =>
       LET n == recommendation.gpusRequired
           v == calculateRequiredVram(app)
       IN  /\ n >= 1
           /\ v <= n * app.gpuVram * AppVramDen
           /\ v > (n - 1) * app.gpuVram * AppVramDen

\* C2 witness: a settled discrete-GPU Calculator whose model needs three cards or more
C2_Witness ==
  /\ CalcSettled /\ ~calc.unifiedMemory /\ CalcValid
  /\ calc.gpusNeeded >= 3
  /\ ~BigLeqGiB(calc.vramRequired, 2 * selectedGpuVram(calc.gpuModel))

\* C3: under discrete GPUs the viable indicator is true whenever the GPU count is
\* at least 1: exceeding one card never yields "Insufficient memory".
C3_DiscreteAlwaysViable ==
  /\ (CalcSettled /\ ~calc.unifiedMemory /\ calc.gpusNeeded >= 1) =>
       isVramSufficient(calc.vramRequired, calc.unifiedMemory, calc.systemRAM, calc.gpuModel)
  /\ (page = "app" /\ app.memoryMode = "DISCRETE_GPU" /\ AppValid) =>
       recommendation.gpusRequired >= 1

\* C4: the reported system RAM requirement is 1.5 x the required VRAM and does
\* not depend on the declared system RAM.
C4_SystemRamRequirement ==
  /\ CalcSettled =>
       /\ calc.systemRAMRequired = BigMulSmall(calc.vramRequired, 3)
       /\ \A r \in SystemRAMChoices :
            calculateRequirements([calc EXCEPT !.systemRAM = r]).systemRAMRequired
              = calc.systemRAMRequired
  /\ page = "app" =>
       /\ recommendation.systemRamNeeded * 2 = 3 * calculateRequiredVram(app)
       /\ \A r \in SystemMemoryChoices :
            calculateHardwareRecommendation([app EXCEPT !.systemMemory = r]).systemRamNeeded
              = recommendation.systemRamNeeded


\* every value an input of Calculator can take in the explored runs
AllModelSizes == ModelSizeChoices \cup {presets[i].parameters : i \in PresetChoices} \cup {CalcInit.modelSize}
AllContextLengths == ContextLengthChoices \cup {presets[i].defaultContext : i \in PresetChoices} \cup {CalcInit.contextLength}
AllSystemRAMs == SystemRAMChoices \cup {CalcInit.systemRAM}

\* C5: the on-disk size is the same for configurations that agree on parameter
\* count and model quantization: changing any one other input of a reachable
\* configuration leaves it unchanged (configurations that agree on the two are
\* joined by such changes).
C5_DiskDependsOnlyOnWeights ==
  /\ CalcSettled =>
       /\ \A v \in AllContextLengths :
            calculateRequirements([calc EXCEPT !.contextLength = v]).diskSpace = calc.diskSpace
       /\ \A v \in BatchSizeChoices :
            calculateRequirements([calc EXCEPT !.batchSize = v]).diskSpace = calc.diskSpace
       /\ \A v \in BOOLEAN :
            calculateRequirements([calc EXCEPT !.enableKVCache = v]).diskSpace = calc.diskSpace
       /\ \A v \in GpuChoices :
            calculateRequirements([calc EXCEPT !.gpuModel = v]).diskSpace = calc.diskSpace
       /\ \A v \in AllSystemRAMs :
            calculateRequirements([calc EXCEPT !.systemRAM = v]).diskSpace = calc.diskSpace
       /\ \A v \in BOOLEAN :
            calculateRequirements([calc EXCEPT !.unifiedMemory = v]).diskSpace = calc.diskSpace
  /\ page = "app" =>
       /\ \A v \in AppContextChoices :
            calculateOnDiskSize([app EXCEPT !.contextLength = v]) = onDiskSize
       /\ \A v \in BOOLEAN :
            calculateOnDiskSize([app EXCEPT !.useKvCache = v]) = onDiskSize
       /\ \A v \in KvCacheQuantizations :
            calculateOnDiskSize([app EXCEPT !.kvCacheQuant = v]) = onDiskSize
       /\ \A v \in MemoryModes :
            calculateOnDiskSize([app EXCEPT !.memoryMode = v]) = onDiskSize
       /\ \A v \in GpuVramOptions :
            calculateOnDiskSize([app EXCEPT !.gpuVram = v]) = onDiskSize
       /\ \A v \in SystemMemoryChoices :
            calculateOnDiskSize([app EXCEPT !.systemMemory = v]) = onDiskSize

\* C5 witness: a settled Calculator whose KV cache makes the VRAM exceed the
\* weights, with non-default context, batch and memory mode, and a disk size shown
C5_Witness ==
  /\ CalcSettled
  /\ calc.enableKVCache /\ calc.contextLength # 4096 /\ calc.batchSize # 1 /\ calc.unifiedMemory
  /\ calc.diskSpace # BigZero
  /\ calc.diskSpace # BigMulSmall(calc.vramRequired, 11)

\* C6: the on-disk size is 1.1 x (params x 1e9 x bytesPerParam / 2^30), with the
\* bytes-per-parameter value the VRAM estimate uses; equivalently 1.1 x the VRAM
\* estimate of the same model with the KV cache disabled.
C6_DiskIsWeightsPlusTenPercent ==
  /\ CalcSettled =>
       /\ calc.diskSpace
            = BigMulSmall(BigMul(BigOf(calc.modelSize * bytesPerParameter2(calc.quantizationMethod)),
                                 TenthBillion256), 11)
       /\ calc.diskSpace
            = BigMulSmall(totalVram(calc.modelSize, calc.quantizationMethod,
                                    calc.contextLength, FALSE, calc.batchSize), 11)
  /\ page = "app" =>
       \* onDiskSize / 80 = 1.1 * params * 1e9 * (factor40 / 40) / 2^30
       /\ BigMul(BigOf(onDiskSize), 2097152)
            = BigMul(BigOf(11 * app.params * getModelQuantFactor40(app.modelQuant)), 390625)
       \* onDiskSize / 80 = 1.1 * (VRAM without KV cache) / 3200
       /\ onDiskSize * 400 = 11 * calculateRequiredVram([app EXCEPT !.useKvCache = FALSE])

\* C7: for valid configurations the VRAM estimate does not decrease when the
\* parameter count, the context length or the batch size is increased, the other
\* inputs fixed, with the KV cache on or off.
C7_VramMonotone ==
  /\ (CalcSettled /\ CalcValid) =>
       /\ \A m \in AllModelSizes : m >= calc.modelSize =>
            BigLeq(calc.vramRequired,
                   totalVram(m, calc.quantizationMethod, calc.contextLength,
                             calc.enableKVCache, calc.batchSize))
       /\ \A n \in AllContextLengths : n >= calc.contextLength =>
            BigLeq(calc.vramRequired,
                   totalVram(calc.modelSize, calc.quantizationMethod, n,
                             calc.enableKVCache, calc.batchSize))
       /\ \A b \in BatchSizeChoices : b >= calc.batchSize =>
            BigLeq(calc.vramRequired,
                   totalVram(calc.modelSize, calc.quantizationMethod, calc.contextLength,
                             calc.enableKVCache, b))
       /\ \A i \in 1..Len(quantizationMethods) :
            LET bpp2 == quantizationMethods[i].bytesPerParameter2
                here == calculateVram(calc.modelSize, calc.contextLength,
                                      calc.enableKVCache, calc.batchSize, bpp2)
            IN  /\ \A m \in AllModelSizes : m >= calc.modelSize =>
                     BigLeq(here, calculateVram(m, calc.contextLength,
                                                calc.enableKVCache, calc.batchSize, bpp2))
                /\ \A n \in AllContextLengths : n >= calc.contextLength =>
                     BigLeq(here, calculateVram(calc.modelSize, n,
                                                calc.enableKVCache, calc.batchSize, bpp2))
                /\ \A b \in BatchSizeChoices : b >= calc.batchSize =>
                     BigLeq(here, calculateVram(calc.modelSize, calc.contextLength,
                                                calc.enableKVCache, b, bpp2))
  /\ (page = "app" /\ AppValid) =>
       /\ \A p \in ParamsChoices : p >= app.params =>
            calculateRequiredVram(app) <= calculateRequiredVram([app EXCEPT !.params = p])
       /\ \A n \in AppContextChoices : n >= app.contextLength =>
            calculateRequiredVram(app) <= calculateRequiredVram([app EXCEPT !.contextLength = n])

\* C7 witness: a settled Calculator with the KV cache on and a batch size above 1,
\* whose VRAM is strictly above that of batch size 1
C7_Witness ==
  /\ CalcSettled /\ CalcValid
  /\ calc.enableKVCache /\ calc.batchSize > 1
  /\ ~BigLeq(calc.vramRequired,
             totalVram(calc.modelSize, calc.quantizationMethod, calc.contextLength, TRUE, 1))

\* the quantizations of decreasing bit-width that each table holds
CalcBitWidthOrder == << "fp32", "fp16", "int8", "int4" >>
AppBitWidthOrder == << "F32", "F16", "Q8", "Q4", "Q2" >>
ChartBitWidthOrder == << 1, 2, 3, 4 >>

\* C8: with the other inputs fixed the VRAM estimate does not increase as the
\* bit-width decreases: full >= half >= 8-bit >= 4-bit >= 2-bit, over the
\* members each table holds.
C8_VramQuantizationOrder ==
  /\ (CalcSettled /\ CalcValid) =>
       \A i, j \in 1..Len(CalcBitWidthOrder) : i < j =>
         /\ BigLeq(totalVram(calc.modelSize, CalcBitWidthOrder[j], calc.contextLength,
                             calc.enableKVCache, calc.batchSize),
                   totalVram(calc.modelSize, CalcBitWidthOrder[i], calc.contextLength,
                             calc.enableKVCache, calc.batchSize))
         /\ calc.quantizationMethod = CalcBitWidthOrder[i] =>
              BigLeq(totalVram(calc.modelSize, CalcBitWidthOrder[j], calc.contextLength,
                               calc.enableKVCache, calc.batchSize),
                     calc.vramRequired)
         /\ BigLeq(calculateVram(calc.modelSize, calc.contextLength, calc.enableKVCache,
                                 calc.batchSize,
                                 quantizationMethods[ChartBitWidthOrder[j]].bytesPerParameter2),
                   calculateVram(calc.modelSize, calc.contextLength, calc.enableKVCache,
                                 calc.batchSize,
                                 quantizationMethods[ChartBitWidthOrder[i]].bytesPerParameter2))
  /\ (page = "app" /\ AppValid) =>
       \A i, j \in 1..Len(AppBitWidthOrder) : i < j =>
         calculateRequiredVram([app EXCEPT !.modelQuant = AppBitWidthOrder[j]])
           <= calculateRequiredVram([app EXCEPT !.modelQuant = AppBitWidthOrder[i]])

\* C8 witness: a settled Calculator at 8-bit whose VRAM is strictly below the
\* half-precision estimate and strictly above the 4-bit estimate
C8_Witness ==
  /\ CalcSettled /\ CalcValid
  /\ calc.quantizationMethod = "int8"
  /\ ~BigLeq(totalVram(calc.modelSize, "fp16", calc.contextLength,
                       calc.enableKVCache, calc.batchSize), calc.vramRequired)
  /\ ~BigLeq(calc.vramRequired,
             totalVram(calc.modelSize, "int4", calc.contextLength,
                       calc.enableKVCache, calc.batchSize))

\* C9: the VRAM estimate with the KV cache disabled is at most the estimate of
\* the same configuration with it enabled; the KV-cache share is zero when disabled.
C9_KvCacheNeverNegative ==
  /\ (CalcSettled /\ CalcValid) =>
       LET off == totalVram(calc.modelSize, calc.quantizationMethod, calc.contextLength,
                            FALSE, calc.batchSize)
           on == totalVram(calc.modelSize, calc.quantizationMethod, calc.contextLength,
                           TRUE, calc.batchSize)
       IN  /\ BigLeq(off, on)
           /\ calc.vramRequired = (IF calc.enableKVCache THEN on ELSE off)
           /\ off = modelSizeBytes(calc.modelSize, bytesPerParameter2(calc.quantizationMethod))
           /\ \A i \in 1..Len(quantizationMethods) :
                BigLeq(calculateVram(calc.modelSize, calc.contextLength, FALSE, calc.batchSize,
                                     quantizationMethods[i].bytesPerParameter2),
                       calculateVram(calc.modelSize, calc.contextLength, TRUE, calc.batchSize,
                                     quantizationMethods[i].bytesPerParameter2))
  /\ (page = "app" /\ AppValid) =>
       /\ calculateRequiredVram([app EXCEPT !.useKvCache = FALSE])
            <= calculateRequiredVram([app EXCEPT !.useKvCache = TRUE])
       /\ calculateRequiredVram([app EXCEPT !.useKvCache = FALSE])
            = modelMem(app.params, app.modelQuant, app.contextLength)

\* C9 witness: a settled Calculator with the KV cache off whose VRAM is strictly
\* below the estimate with the cache on
C9_Witness ==
  /\ CalcSettled /\ CalcValid
  /\ ~calc.enableKVCache
  /\ calc.vramRequired # BigZero
  /\ ~BigLeq(totalVram(calc.modelSize, calc.quantizationMethod, calc.contextLength,
                       TRUE, calc.batchSize), calc.vramRequired)

\* 2 x ceil(ms x 1e8 / (4 x 768 x 768)) x 128 x ctx x batch x bytes bytes, in blocks
KvReference(ms, ctx, batch, bytes) ==
  BigMul(BigOf(ctx * batch), 2 * CeilDiv(ms * (100000000 \div 256), (4 * 768 * 768) \div 256) * bytes)

\* ceil(params x 1e9 / (4 x 768 x 768)) for params in billions
AppNumHeads(p) == CeilDiv(p * 10 * 390625, 9216)

CalcFinite == calc.gpusNeededKind = "finite" /\ calc.inferenceSpeed.d # 0

RECURSIVE Gcd(_, _)
Gcd(a, b) == IF b = 0 THEN a ELSE Gcd(b, a % b)

\* a fraction with a positive denominator, in lowest terms
Reduce(x) == [n |-> x.n \div Gcd(x.n, x.d), d |-> x.d \div Gcd(x.n, x.d)]

\* fractions with positive denominators: x = y
FracEq(x, y) == Reduce(x) = Reduce(y)

\* fractions with positive denominators: x < y (compared in lowest terms)
FracLess(x, y) == Reduce(x).n * Reduce(y).d < Reduce(y).n * Reduce(x).d

\* C12 (as stated): the batch scaling factor log2(b)/log2(4) + 0.5 is 1.0 at
\* batch size 4, so that the chart point of batch size 4 is the unscaled speed,
\* and it is evaluated only at batch sizes greater than 0.
C12_BatchScalingOneAtFour ==
  CalcSettled =>
    /\ batchSizeFactor(4).n = batchSizeFactor(4).d
    /\ \A i \in DOMAIN chartData(calc) : chartData(calc)[i].batchSize > 0
    /\ (CalcValid /\ CalcFinite) =>
         \E i \in DOMAIN chartData(calc) :
           /\ chartData(calc)[i].batchSize = 4
           /\ FracEq(chartData(calc)[i].speed, calc.inferenceSpeed)

\* C12 (amended): the batch scaling factor log2(b)/log2(4) + 0.5 is 1.5 at batch
\* size 4 (it is 1.0 at batch size 2 and (log2(b) + 1) / 2 at every charted batch
\* size), and it is evaluated only at the charted batch sizes 1, 2, 4, 8, 16, 32,
\* all greater than 0, whatever the batch size input holds.
C12_BatchScaling ==
  CalcSettled =>
    /\ 2 * batchSizeFactor(4).n = 3 * batchSizeFactor(4).d
    /\ batchSizeFactor(2).n = batchSizeFactor(2).d
    /\ \A i \in DOMAIN chartData(calc) :
         LET b == chartData(calc)[i].batchSize
         IN  /\ b > 0 /\ b \in {1, 2, 4, 8, 16, 32}
             /\ batchSizeFactor(b).d > 0
             /\ 2 * batchSizeFactor(b).n = i * batchSizeFactor(b).d
             /\ (CalcValid /\ CalcFinite) =>
                  /\ chartData(calc)[i].speed.d > 0
                  /\ FracEq([n |-> 2 * chartData(calc)[i].speed.n,
                             d |-> chartData(calc)[i].speed.d],
                            [n |-> i * calc.inferenceSpeed.n, d |-> calc.inferenceSpeed.d])

\* C12 witness: a settled Calculator whose batch size input is not a charted
\* value (0, typed) and whose chart point at batch size 4 exceeds the headline speed
C12_Witness ==
  /\ CalcSettled /\ CalcFinite /\ calc.modelSize > 0 /\ calc.inferenceSpeed.n > 0
  /\ calc.batchSize = 0
  /\ chartData(calc)[3].batchSize = 4
  /\ FracLess(calc.inferenceSpeed, chartData(calc)[3].speed)

\* C13: the stored (headline) inference speed is 30 x gpuSpeedFactor x
\* quantSpeedFactor x (7 / params) x gpus x batchScaling(batchSize), and so equals
\* the chart point InferenceSpeedEstimator draws for the selected batch size,
\* as numbers and as displayed with one decimal.
C13_HeadlineMatchesChart ==
  (CalcSettled /\ CalcValid /\ CalcFinite) =>
    \A i \in DOMAIN chartData(calc) :
      chartData(calc)[i].batchSize = calc.batchSize =>
        /\ FracEq(calc.inferenceSpeed,
                  [n |-> ((baseSpeed * speedFactor10(calc.gpuModel)
                            * quantizationSpeedFactor10(calc.quantizationMethod) * 7
                            * calc.gpusNeeded) \div 10) * batchSizeFactor(calc.batchSize).n,
                   d |-> calc.modelSize * batchSizeFactor(calc.batchSize).d])
        /\ FracEq(calc.inferenceSpeed, chartData(calc)[i].speed)
        /\ toFixed1(calc.inferenceSpeed) = toFixed1(chartData(calc)[i].speed)

\* C14: in every reachable state of the forms the parameter count, the context
\* length, the batch size and the system RAM are positive, so that neither
\* 7 / params nor 1000 / inferenceSpeed divides by zero.
C14_OnlyPositiveInputs ==
  /\ page = "calculator" =>
       /\ calc.modelSize > 0 /\ calc.contextLength > 0
       /\ calc.batchSize > 0 /\ calc.systemRAM > 0
       /\ CalcSettled =>
            /\ CalcFinite /\ calc.inferenceSpeed.n > 0
            /\ timeFor1000Tokens(calc.inferenceSpeed).d # 0
  /\ page = "app" =>
       app.params > 0 /\ app.contextLength > 0 /\ app.systemMemory > 0

\* the inputs of c with the results a freshly mounted Calculator holds
FreshCalc(c) ==
  [CalcInit EXCEPT !.modelSize = c.modelSize, !.contextLength = c.contextLength,
                   !.quantizationMethod = c.quantizationMethod,
                   !.enableKVCache = c.enableKVCache, !.batchSize = c.batchSize,
                   !.gpuModel = c.gpuModel, !.systemRAM = c.systemRAM,
                   !.unifiedMemory = c.unifiedMemory]

\* c with the five results r stored
WithResults(c, r) ==
  [c EXCEPT !.vramRequired = r.vramRequired, !.systemRAMRequired = r.systemRAMRequired,
            !.diskSpace = r.diskSpace, !.gpusNeeded = r.gpusNeeded,
            !.gpusNeededKind = r.gpusNeededKind, !.inferenceSpeed = r.inferenceSpeed]

\* C15: the estimations are functions of the current inputs and the constant
\* tables only: whatever results earlier inputs have left in the state, the
\* estimate is the one a fresh component computes from the same inputs, and
\* evaluating again after storing it yields it again.
C15_EstimatesDependOnInputsOnly ==
  /\ page = "calculator" =>
       LET r == calculateRequirements(calc)
       IN  /\ r = calculateRequirements(FreshCalc(calc))
           /\ calculateRequirements(WithResults(calc, r)) = r
  /\ page = "app" =>
       LET a == [AppInit EXCEPT !.params = app.params, !.modelQuant = app.modelQuant,
                                !.useKvCache = app.useKvCache,
                                !.kvCacheQuant = app.kvCacheQuant,
                                !.contextLength = app.contextLength,
                                !.memoryMode = app.memoryMode,
                                !.systemMemory = app.systemMemory, !.gpuVram = app.gpuVram]
       IN  /\ calculateHardwareRecommendation(a) = recommendation
           /\ calculateOnDiskSize(a) = onDiskSize

\* C15 witness: the effect is about to run in a Calculator that still holds the
\* results of earlier inputs, which differ from the estimate of the current ones
C15_Witness ==
  /\ page = "calculator" /\ calc.effectPending
  /\ calc.vramRequired # BigZero
  /\ calc.vramRequired # calculateRequirements(calc).vramRequired
  /\ BigLeq(calculateRequirements(calc).vramRequired, calc.vramRequired)

\* x GB is h / 100 when rounded to two decimals: floor(200 x) is 2h - 1 or 2h
RoundsTo2(x, h) == BigMulSmall(x, 200).h \in {2 * h - 1, 2 * h}

\* x GB is t / 10 when rounded to one decimal: floor(20 x) is 2t - 1 or 2t
RoundsTo1(x, t) == BigMulSmall(x, 20).h \in {2 * t - 1, 2 * t}

\* C16: with the KV cache disabled, context length 4096 and batch size 1, the
\* VRAM estimate is params x 1e9 x bytesPerParam / 2^30: 13.04 GB for a 7B
\* half-precision model and 3.26 GB for the same model at 4-bit.
C16_WeightsOnlyScenarios ==
  /\ (CalcSettled /\ ~calc.enableKVCache /\ calc.contextLength = 4096 /\ calc.batchSize = 1) =>
       /\ calc.vramRequired
            = BigMul(BigOf(calc.modelSize * bytesPerParameter2(calc.quantizationMethod)),
                     TenthBillion256)
       /\ (calc.modelSize = 70 /\ calc.quantizationMethod = "fp16") =>
            RoundsTo2(calc.vramRequired, 1304)
       /\ (calc.modelSize = 70 /\ calc.quantizationMethod = "int4") =>
            RoundsTo2(calc.vramRequired, 326)
  /\ (page = "app" /\ ~app.useKvCache /\ app.contextLength = 4096) =>
       \* requiredVram / 3200 GB = params x 1e9 x (factor40 / 40) / 2^30
       /\ BigMul(BigOf(calculateRequiredVram(app)), 131072)
            = BigMul(BigOf(25 * app.params * getModelQuantFactor40(app.modelQuant)), 390625)
       /\ (app.params = 7 /\ app.modelQuant = "F16") =>
            (200 * calculateRequiredVram(app)) \div AppVramDen \in {2 * 1304 - 1, 2 * 1304}
       /\ (app.params = 7 /\ app.modelQuant = "Q4") =>
            (200 * calculateRequiredVram(app)) \div AppVramDen \in {2 * 326 - 1, 2 * 326}

\* C17: a 70B 8-bit model (weights only, as in the scenarios before it) on
\* discrete GPUs of 24 GB needs 65.2 GB of VRAM and 3 GPUs.
C17_SeventyBillionEightBit ==
  /\ (CalcSettled /\ calc.modelSize = 700 /\ calc.quantizationMethod = "int8"
        /\ ~calc.enableKVCache /\ ~calc.unifiedMemory
        /\ selectedGpuVram(calc.gpuModel) = 24) =>
       /\ RoundsTo1(calc.vramRequired, 652)
       /\ calc.gpusNeeded = 3
  /\ (page = "app" /\ app.params = 70 /\ app.modelQuant = "Q8" /\ ~app.useKvCache
        /\ app.memoryMode = "DISCRETE_GPU" /\ app.gpuVram = 24) =>
       /\ (20 * calculateRequiredVram(app)) \div AppVramDen \in {2 * 652 - 1, 2 * 652}
       /\ recommendation.gpusRequired = 3

\* the five results the Calculator holds
StoredResults(c) ==
  [vramRequired |-> c.vramRequired, systemRAMRequired |-> c.systemRAMRequired,
   diskSpace |-> c.diskSpace, gpusNeeded |-> c.gpusNeeded,
   gpusNeededKind |-> c.gpusNeededKind, inferenceSpeed |-> c.inferenceSpeed]

\* C18: in Calculator, once the recomputation effect has run after any sequence
\* of input changes, the five stored results are the estimator applied to the
\* current values of the eight inputs: no result of earlier inputs stays.
C18_ResultsFollowInputs ==
  CalcSettled => StoredResults(calc) = calculateRequirements(FreshCalc(calc))

\* C18 witness: a settled Calculator after changes of model size, batch size,
\* memory mode and system RAM, holding results that are not those of the mount
C18_Witness ==
  /\ CalcSettled
  /\ calc.modelSize # CalcInit.modelSize /\ calc.batchSize # CalcInit.batchSize
  /\ calc.unifiedMemory /\ calc.systemRAM # CalcInit.systemRAM
  /\ calc.vramRequired # BigZero
  /\ StoredResults(calc) # calculateRequirements(CalcInit)
  /\ calc.gpusNeeded >= 2

\* C19: a run of the recomputation effect writes results only: it changes no
\* dependency of the effect and leaves no effect pending, so every input change
\* is followed by one run of the effect and then quiescence.
C19_EffectQuiesces ==
  [][(page = "calculator" /\ calc.effectPending) =>
       /\ CalcInputs(calc') = CalcInputs(calc)
       /\ ~calc'.effectPending]_vars

\* C19 witness: the effect has run for a typed system RAM of 0 and the
\* Calculator is quiescent, the input still 0
C19_Witness ==
  /\ page = "calculator" /\ ~calc.effectPending
  /\ calc.unifiedMemory /\ calc.systemRAM = 0
  /\ calc.gpusNeededKind # "finite"

\* C20: selecting a preset sets exactly the parameter count, the quantization
\* and the context length to the preset's values, leaves the other five inputs
\* (and the stored results) as they are, and the recomputation that follows
\* computes from the three new values together.
C20_PresetFrame ==
  [][/\ applyModelPreset =>
          /\ \E i \in 1..Len(presets) :
               /\ calc'.modelSize = presets[i].parameters
               /\ calc'.quantizationMethod = presets[i].defaultQuantization
               /\ calc'.contextLength = presets[i].defaultContext
          /\ calc'.enableKVCache = calc.enableKVCache
          /\ calc'.batchSize = calc.batchSize
          /\ calc'.gpuModel = calc.gpuModel
          /\ calc'.systemRAM = calc.systemRAM
          /\ calc'.unifiedMemory = calc.unifiedMemory
          /\ StoredResults(calc') = StoredResults(calc)
          /\ calc'.effectPending = (FreshCalc(calc') # FreshCalc(calc))
     /\ RecomputeEffect =>
          /\ FreshCalc(calc') = FreshCalc(calc)
          /\ StoredResults(calc') = calculateRequirements(FreshCalc(calc))]_vars

\* C20 witness: the second preset (70B, int8, 8192 tokens) has been applied to a
\* Calculator with non-default KV-cache, batch, GPU and memory settings, and its
\* results are stored
C20_Witness ==
  /\ CalcSettled
  /\ calc.modelSize = presets[2].parameters
  /\ calc.quantizationMethod = presets[2].defaultQuantization
  /\ calc.contextLength = presets[2].defaultContext
  /\ ~calc.enableKVCache /\ calc.batchSize = 2 /\ calc.gpuModel = "rtx3070"
  /\ calc.unifiedMemory /\ calc.systemRAM = 8
  /\ calc.vramRequired = totalVram(700, "int8", 8192, FALSE, 2)

\* C21: in App, a GPU count of 0 under unified memory comes with the
\* "Exceeds unified memory" warning and with neither "Number of GPUs
\* Required" line; in unified mode exactly one of the "Fits" and "Exceeds"
\* messages is rendered, in discrete mode neither.
C21_UnifiedMessages ==
  page = "app" =>
    /\ (app.memoryMode = "UNIFIED_MEMORY" /\ recommendation.gpusRequired = 0)
         => (showsExceedsUnified /\ ~showsGpuCount /\ ~showsSingleGpu)
    /\ app.memoryMode = "UNIFIED_MEMORY" => (showsFitsUnified <=> ~showsExceedsUnified)
    /\ app.memoryMode = "DISCRETE_GPU" => (~showsFitsUnified /\ ~showsExceedsUnified)

\* a model that does not fit the unified memory: 0 GPUs and the warning
C21_Witness ==
  /\ page = "app"
  /\ app.memoryMode = "UNIFIED_MEMORY"
  /\ app.params > 0
  /\ recommendation.gpusRequired = 0
  /\ showsExceedsUnified
  /\ ~showsFitsUnified

\* everything the results panel of App shows for the state a
AppEstimates(a) ==
  [vram |-> calculateRequiredVram(a),
   recommendation |-> calculateHardwareRecommendation(a),
   onDiskSize |-> calculateOnDiskSize(a)]

\* C22: while the KV cache of App is disabled, every estimate is the same
\* whatever KV-cache quantization is selected, and a step that toggles the
\* KV cache (off, or on again) leaves the selected KV-cache quantization as
\* it was.
C22_DisabledKvQuantIrrelevant ==
  /\ [](page = "app" /\ ~app.useKvCache =>
          \A k \in KvCacheQuantizations :
            AppEstimates([app EXCEPT !.kvCacheQuant = k]) = AppEstimates(app))
  /\ [][(page = "app" /\ app'.useKvCache # app.useKvCache)
          => app'.kvCacheQuant = app.kvCacheQuant]_vars

\* the cache switched off while a quantization other than the initial one
\* is selected, for a model whose estimates are not all zero
C22_Witness ==
  /\ page = "app"
  /\ ~app.useKvCache
  /\ app.kvCacheQuant = "Q4"
  /\ app.params > 0
  /\ calculateRequiredVram([app EXCEPT !.useKvCache = TRUE]) > calculateRequiredVram(app)

\* bytes per parameter by bit width, times 40: 32 bits is 4.0, 16 is 2.0,
\* 8 is 1.0, 6 is 0.75, 5 is 0.625, 4 is 0.5, 3 is 0.375 and 2 is 0.25
BytesByWidth40 == [w \in {32, 16, 8, 6, 5, 4, 3, 2} |->
  CASE w = 32 -> 160 [] w = 16 -> 80 [] w = 8 -> 40 [] w = 6 -> 30
    [] w = 5 -> 25 [] w = 4 -> 20 [] w = 3 -> 15 [] w = 2 -> 10]

\* the bit width each table key names
AppWidthOf == [q \in {"F32", "F16", "Q8", "Q6", "Q5", "Q4", "Q3", "Q2"} |->
  CASE q = "F32" -> 32 [] q = "F16" -> 16 [] q = "Q8" -> 8 [] q = "Q6" -> 6
    [] q = "Q5" -> 5 [] q = "Q4" -> 4 [] q = "Q3" -> 3 [] q = "Q2" -> 2]
CalcWidthOf == [q \in {"fp32", "fp16", "bf16", "int8", "int4"} |->
  CASE q = "fp32" -> 32 [] q = "fp16" -> 16 [] q = "bf16" -> 16 [] q = "int8" -> 8
    [] q = "int4" -> 4]

\* C23: the bytes-per-parameter tables map each bit width they hold to the
\* stated value (App holds all eight widths, Calculator 32, 16, 8 and 4),
\* and the KV-cache table of App gives each of its five members the value
\* of the model table, so that an enabled KV cache at the quantization q is
\* charged a fifth of the weights at q.
C23_BytesPerParameterTables ==
  /\ \A q \in DOMAIN AppWidthOf :
       /\ q \in ModelQuantizations
       /\ getModelQuantFactor40(q) = BytesByWidth40[AppWidthOf[q]]
  /\ \A q \in DOMAIN CalcWidthOf :
       /\ q \in QuantizationMethods
       /\ bytesPerParameter2(q) * 20 = BytesByWidth40[CalcWidthOf[q]]
  /\ KvCacheQuantizations = {"F32", "F16", "Q8", "Q5", "Q4"}
  /\ \A k \in KvCacheQuantizations : getKvCacheQuantFactor40(k) = getModelQuantFactor40(k)
  /\ page = "app" =>
       kvCacheMem(app.params, app.kvCacheQuant, app.contextLength, TRUE) * 5
         = modelMem(app.params, app.kvCacheQuant, app.contextLength)

\* the model and its KV cache both at 5 bits, the width whose value (0.625)
\* is not a power of two
C23_Witness ==
  /\ page = "app"
  /\ app.useKvCache
  /\ app.modelQuant = "Q5"
  /\ app.kvCacheQuant = "Q5"
  /\ app.params > 0
  /\ calculateRequiredVram(app) * 5 = modelMem(app.params, "Q5", app.contextLength) * 6

\* C24: the GPU tables of Calculator hold the same 13 names; every VRAM
\* capacity lies between 8 and 80 GB, every speed factor between 0.5 and
\* 2.5, and rtx3090 has factor 1.0; so the capacity and factor that
\* Calculator uses for the selected GPU lie in these ranges.
C24_GpuTableRanges ==
  /\ Cardinality(DOMAIN gpuVramSizes) = 13
  /\ DOMAIN gpuSpeedFactors10 = DOMAIN gpuVramSizes
  /\ \A g \in DOMAIN gpuVramSizes : gpuVramSizes[g] \in 8..80
  /\ \A g \in DOMAIN gpuSpeedFactors10 : gpuSpeedFactors10[g] \in 5..25
  /\ gpuSpeedFactors10["rtx3090"] = 10
  /\ page = "calculator" =>
       /\ calc.gpuModel \in DOMAIN gpuVramSizes
       /\ selectedGpuVram(calc.gpuModel) \in 8..80
       /\ speedFactor10(calc.gpuModel) \in 5..25

\* results computed for the GPU that has both the smallest capacity and the
\* smallest factor
C24_Witness ==
  /\ CalcSettled
  /\ calc.gpuModel = "rtx3070"
  /\ selectedGpuVram(calc.gpuModel) = 8
  /\ speedFactor10(calc.gpuModel) = 5
  /\ calc.vramRequired # BigZero

\* the alert of ResultsDisplay for the props Calculator passes in this render
ShowsViable ==
  isVramSufficient(calc.vramRequired, calc.unifiedMemory, calc.systemRAM, calc.gpuModel)

\* the "GPUs Needed" figure of the same render is a number that is at most 1
ShowsAtMostOneGpu == calc.gpusNeededKind = "finite" /\ calc.gpusNeeded <= 1

\* C25: in every render of Calculator, the one between an input change and
\* the recomputation effect included, ResultsDisplay announces
\* "Configuration is viable" exactly when the GPU count it displays is at
\* most 1 (and "Insufficient memory" exactly when that count is 2 or more).
C25_ViableIffAtMostOneGpu ==
  page = "calculator" => (ShowsViable <=> ShowsAtMostOneGpu)

\* C26: the duplicated tables agree (GPU capacities of Calculator and
\* ResultsDisplay, GPU and quantization speed factors of Calculator and
\* InferenceSpeedEstimator), and every value GPUSelector offers is a key of
\* all of them with the capacity its label prints; so the lookups made for
\* the selected GPU and quantization never take a fallback default.
C26_DuplicatedTablesAgree ==
  /\ resultsGpuVramSizes = gpuVramSizes
  /\ estimatorGpuSpeedFactors10 = gpuSpeedFactors10
  /\ \A q \in QuantizationMethods :
       estimatorQuantFactor10(q) = quantizationSpeedFactor10(q)
  /\ Cardinality(gpuSelectorValues) = Len(gpuSelectorItems)
  /\ \A i \in 1..Len(gpuSelectorItems) :
       LET item == gpuSelectorItems[i]
       IN  /\ item.value \in DOMAIN gpuVramSizes
           /\ item.value \in DOMAIN resultsGpuVramSizes
           /\ item.value \in DOMAIN gpuSpeedFactors10
           /\ item.value \in DOMAIN estimatorGpuSpeedFactors10
           /\ gpuVramSizes[item.value] = item.labelGB
           /\ resultsGpuVramSizes[item.value] = item.labelGB
  /\ GpuChoices \subseteq gpuSelectorValues
  /\ page = "calculator" =>
       /\ calc.gpuModel \in gpuSelectorValues
       /\ calc.quantizationMethod \in QuantizationMethods
       /\ resultsSelectedGpuVram(calc.gpuModel) = selectedGpuVram(calc.gpuModel)
       /\ estimatorSpeedFactor10(calc.gpuModel) = speedFactor10(calc.gpuModel)
       /\ estimatorQuantFactor10(calc.quantizationMethod)
            = quantizationSpeedFactor10(calc.quantizationMethod)

\* results for a GPU and a quantization whose table values differ from the
\* fallback defaults (80 GB against 24, 1.6 against 1.0, 1.8 against 1.0)
C26_Witness ==
  /\ CalcSettled
  /\ calc.gpuModel = "a100_80gb"
  /\ calc.quantizationMethod = "gptq"
  /\ calc.modelSize > 0
  /\ resultsSelectedGpuVram(calc.gpuModel) = 80
  /\ estimatorSpeedFactor10(calc.gpuModel) = 16
  /\ estimatorQuantFactor10(calc.quantizationMethod) = 18

\* the chart row that stands for a quantization method of Calculator
ChartNameOf(q) ==
  CASE q = "fp32" -> "FP32"
    [] q = "fp16" -> "FP16/BF16"
    [] q = "bf16" -> "FP16/BF16"
    [] q = "int8" -> "INT8"
    [] q = "int4" -> "INT4"
    [] q = "gptq" -> "GPTQ"

\* the unrounded VRAM QuantizationComparison charts for q from the props
\* Calculator passes in this render
ChartedVram(q) ==
  LET row == CHOOSE r \in {quantizationMethods[i] : i \in 1..Len(quantizationMethods)} :
               r.name = ChartNameOf(q)
  IN  calculateVram(calc.modelSize, calc.contextLength, calc.enableKVCache,
                    calc.batchSize, row.bytesPerParameter2)

\* C27: for the model size, context length, KV-cache flag and batch size
\* of any render and each quantization method selectable in Calculator,
\* the VRAM that QuantizationComparison charts for the method (before
\* rounding) is the VRAM Calculator computes with that method selected; in
\* particular the row of the selected method is the stored vramRequired.
C27_ChartMatchesCalculator ==
  page = "calculator" =>
    /\ \A q \in QuantizationMethods :
         /\ \E i \in 1..Len(quantizationMethods) :
              quantizationMethods[i].name = ChartNameOf(q)
         /\ ChartedVram(q) = totalVram(calc.modelSize, q, calc.contextLength,
                                       calc.enableKVCache, calc.batchSize)
    /\ ~calc.effectPending => ChartedVram(calc.quantizationMethod) = calc.vramRequired

\* a 4-bit model with the KV cache of a batch of two: both terms of the
\* formula contribute to the charted and to the stored value
C27_Witness ==
  /\ CalcSettled
  /\ calc.quantizationMethod = "int4"
  /\ calc.enableKVCache
  /\ calc.batchSize = 2
  /\ calc.modelSize > 0
  /\ calc.contextLength > 0
  /\ ChartedVram("int4") = calc.vramRequired
  /\ ChartedVram("int4") # ChartedVram("int8")

\* the keys of Calculator's bytes-per-parameter and quantization speed tables
QuantizationTableKeys == {"fp32", "fp16", "bf16", "int8", "int4", "gptq"}

\* the current inputs of Calculator with the i-th preset applied
WithPreset(i) ==
  [calc EXCEPT !.modelSize = presets[i].parameters,
               !.quantizationMethod = presets[i].defaultQuantization,
               !.contextLength = presets[i].defaultContext]

\* C28: every model preset is a valid configuration for Calculator: its
\* quantization is a key of the bytes-per-parameter and speed-factor
\* tables, its parameter count lies in the model-size input range (0.1 to
\* 70 billion) and its context length in the context input range (1024 to
\* 128000); applied to any state, it gives inputs in these ranges.
C28_PresetsAreValid ==
  /\ \A i \in 1..Len(presets) :
       /\ presets[i].defaultQuantization \in QuantizationTableKeys
       /\ presets[i].defaultQuantization \in QuantizationMethods
       /\ presets[i].parameters \in 1..700
       /\ presets[i].defaultContext \in 1024..128000
  /\ page = "calculator" =>
       \A i \in 1..Len(presets) :
         /\ WithPreset(i).modelSize \in 1..700
         /\ WithPreset(i).contextLength \in 1024..128000
         /\ bytesPerParameter2(WithPreset(i).quantizationMethod) * 20
              = BytesByWidth40[CalcWidthOf[WithPreset(i).quantizationMethod]]

\* the results of the largest preset the buttons explored here apply (70
\* billion parameters, the upper end of the model-size range)
C28_Witness ==
  /\ CalcSettled
  /\ \E i \in PresetChoices :
       /\ presets[i].parameters = 700
       /\ CalcInputs(calc) = CalcInputs(WithPreset(i))
  /\ CalcValid
  /\ calc.gpusNeededKind = "finite"
  /\ calc.gpusNeeded >= 1

\* what Number() yields for the texts that parse to a number
ParsedNumber == [t \in {"", "0", "-1"} |-> CASE t = "" -> 0 [] t = "0" -> 0 [] t = "-1" -> -1]

\* C29: in App, an edit of a number input whose text does not parse to a
\* number leaves the bound state value, and with it every displayed
\* estimate, unchanged; a text that parses to a number, 0 and negative
\* values included, replaces the state value.
C29_NanEditsIgnored ==
  page = "app" =>
    \A t \in AppTypedTexts :
      LET typedParams == [app EXCEPT !.params = handleInputChange(t, app.params)]
          typedContext ==
            [app EXCEPT !.contextLength = handleInputChange(t, app.contextLength)]
          typedMemory ==
            [app EXCEPT !.systemMemory = handleInputChange(t, app.systemMemory)]
      IN  IF t \in DOMAIN ParsedNumber
            THEN /\ typedParams.params = ParsedNumber[t]
                 /\ typedContext.contextLength = ParsedNumber[t]
                 /\ typedMemory.systemMemory = ParsedNumber[t]
            ELSE /\ typedParams = app /\ typedContext = app /\ typedMemory = app
                 /\ AppEstimates(typedParams) = AppEstimates(app)
                 /\ AppEstimates(typedContext) = AppEstimates(app)
                 /\ AppEstimates(typedMemory) = AppEstimates(app)

\* a negative parameter count typed into the field has replaced the state
\* value, and a further edit that is not a number would keep it
C29_Witness ==
  /\ page = "app"
  /\ app.params = -1
  /\ handleInputChange("abc", app.params) = -1
  /\ handleInputChange("0", app.params) = 0

\* the VRAM estimate of App and of the second component for the current
\* state with the context length replaced by n (times AppVramDen)
VramAtContext(n) == calculateRequiredVram([app EXCEPT !.contextLength = n])
VramAtContext2(n) == calculateRequiredVram2([app2 EXCEPT !.contextLength = n])

\* v is the estimate for n tokens that follows from v2048, the estimate for
\* 2048 tokens: the same up to 2048 tokens, proportional to n above
\* (n a multiple of ContextStep)
ScalesWithContext(v, v2048, n) ==
  IF n <= 2048 THEN v = v2048 ELSE v * 16 = v2048 * (n \div ContextStep)

\* C30: in both App components the context scaling factor is
\* max(1, contextLength / 2048): every context length of 2048 tokens or
\* less gives the VRAM estimate of 2048 tokens, and above 2048 tokens the
\* estimate is proportional to the context length.
C30_ContextScaling ==
  /\ page = "app" =>
       /\ \A n \in AppContextChoices \cup {app.contextLength} :
            ScalesWithContext(VramAtContext(n), VramAtContext(2048), n)
       /\ ScalesWithContext(calculateRequiredVram(app), VramAtContext(2048),
                            app.contextLength)
  /\ page = "app2" =>
       /\ \A n \in AppContextChoices \cup {app2.contextLength} :
            ScalesWithContext(VramAtContext2(n), VramAtContext2(2048), n)
       /\ ScalesWithContext(calculateRequiredVram2(app2), VramAtContext2(2048),
                            app2.contextLength)

\* the slider at its lowest position, 128 tokens: the estimate is that of
\* 2048 tokens and half of that of 4096 tokens
C30_Witness ==
  /\ page = "app"
  /\ app.contextLength = 128
  /\ app.params > 0
  /\ app.useKvCache
  /\ calculateRequiredVram(app) = VramAtContext(2048)
  /\ 2 * calculateRequiredVram(app) = VramAtContext(4096)

----------------------------------------------------------------------------
(* Properties of the lookups (FallbackSpec)                                *)

====
